---- MODULE Spec2Model ----
(***************************************************************************)
(* Model of src/server/server.py: AServer, an asyncio line-delimited JSON  *)
(* request dispatcher.  One AServer object holds the fields __writer,      *)
(* __alive and __loop; asyncio.start_server runs one handle_connection     *)
(* coroutine per accepted connection, all on one event loop.  An action of *)
(* the model is one uninterrupted run of a coroutine between two awaits    *)
(* (the event loop is single-threaded and cooperative), or one event of a  *)
(* client or of the transport.                                             *)
(***************************************************************************)
EXTENDS Integers, Sequences, FiniteSets, TLC

\* ---------------------------------------------------------------- bounds
NumSessions == 2          \* connections the listener may accept
MaxFrames   == 2          \* CR LF terminated frames sent by all clients together
MaxWrites   == 1          \* calls of AServer.write made by all handlers together
MaxMsgLen   == 1          \* characters of a message passed to AServer.write

Sess == 1..NumSessions
None == 0                 \* the value None of self.__writer (server.py:49)

\* ---------------------------------------------------------------- frames
\* A frame is what readuntil(b"\r\n") returns.  Only what the code inspects
\* is kept: whether the bytes decode as ASCII, what json.loads makes of the
\* text, and the value found under the key 'type'.
TypeNames == {"ping", "nope", "terminate"}

Frames ==
    { [ascii |-> FALSE, json |-> "invalid", type |-> "absent"],
      [ascii |-> TRUE,  json |-> "invalid", type |-> "absent"],
      [ascii |-> TRUE,  json |-> "array",   type |-> "absent"],
      [ascii |-> TRUE,  json |-> "object",  type |-> "absent"],
      [ascii |-> TRUE,  json |-> "object",  type |-> "number"] }
    \cup { [ascii |-> TRUE, json |-> "object", type |-> t] : t \in TypeNames }

\* A frame the protocol calls well formed: a JSON object with a string type.
WellFormed(f) == f.ascii /\ f.json = "object" /\ f.type \in TypeNames

\* ------------------------------------------------------- handler registry
\* request_type.get_types() of server/jrequest.py: the mapping from a type
\* name to its callback, given here by its key set.  The module is fixed
\* before the server starts; every registry over the modelled names that
\* holds the "ping" callback is considered.
Registries == { {"ping"}, {"ping", "terminate"} }

\* ------------------------------------------------------------- exceptions
\* The exceptions the model distinguishes, by the Python class that decides
\* which except clause takes them.
NoExc == "none"

\* data.decode('ascii') (server.py:93)
Decode(f) == IF f.ascii THEN NoExc ELSE "UnicodeDecodeError"

\* json.loads(data) (server.py:101)
JsonLoads(f) == IF f.json = "invalid" THEN "JSONDecodeError" ELSE NoExc

\* data['type'] (server.py:104): indexing a non-object by a string is a
\* TypeError, a missing key a KeyError.
GetType(f) ==
    IF f.json # "object" THEN "TypeError"
    ELSE IF f.type = "absent" THEN "KeyError"
    ELSE NoExc

\* (variant: the except clause of server.py:94 is missing)
DecodeExceptMissing(e) == FALSE

\* except UnicodeDecodeError (server.py:94)
DecodeExceptCatches(e) == e = "UnicodeDecodeError"

\* (variant: the clause names the parse errors only)
InnerExceptParseErrorsOnly(e) == e \in {"JSONDecodeError", "KeyError", "TypeError"}

\* (variant: the clause lets connection errors through to server.py:116)
InnerExceptNotConnectionError(e) == e # "ConnectionError"

\* the bare except (server.py:113) takes every exception, BaseException
\* subclasses such as SystemExit included
InnerExceptCatches(e) == TRUE

\* (variant: the clause of server.py:116 is missing)
OuterExceptNone(e) == FALSE

\* (variant: the clause names ConnectionError only)
OuterExceptConnectionErrorOnly(e) == e = "ConnectionError"

\* except (ConnectionError, asyncio.streams.IncompleteReadError) (server.py:116),
\* read with the asyncio the clause was written for, where the name
\* asyncio.streams.IncompleteReadError exists.
OuterExceptCatches(e) == e \in {"ConnectionError", "IncompleteReadError"}

\* (variant: a callback is found for every type)
LookupAlways(funcs, t) == TRUE

\* funcs.get(data['type']) (server.py:108-109): the callback to invoke, if
\* any.  A number is never a key of the registry.
Lookup(funcs, t) == t \in funcs

\* ------------------------------------------------------------- messages
\* "D800" stands for a lone surrogate, a character of a Python str (json.loads
\* makes one of the ASCII text "\ud800") that has no UTF-8 encoding.
Surrogate == "D800"
Chars == {"a", "%", Surrogate}

RECURSIVE SeqsUpTo(_)
SeqsUpTo(n) ==
    IF n = 0 THEN { <<>> }
    ELSE LET S == SeqsUpTo(n - 1)
         IN  S \cup { Append(m, c) : m \in {x \in S : Len(x) = n - 1}, c \in Chars }

Messages == SeqsUpTo(MaxMsgLen)

\* message.replace("%", "%%") (server.py:130)
RECURSIVE Escape(_)
Escape(m) ==
    IF m = <<>> THEN <<>>
    ELSE IF Head(m) = "%" THEN <<"%", "%">> \o Escape(Tail(m))
         ELSE <<Head(m)>> \o Escape(Tail(m))

\* str.encode(): the byte of each (ASCII) character
Byte(c) == CASE c = "%" -> 37 [] c = "a" -> 97

\* message.encode() returns (server.py:132); it raises UnicodeEncodeError on
\* a lone surrogate.
Encodable(m) == \A i \in 1..Len(m) : m[i] # Surrogate

RECURSIVE Encode(_)
Encode(m) == IF m = <<>> THEN <<>> ELSE <<Byte(Head(m))>> \o Encode(Tail(m))

\* the bytes write() hands to the stream writer (server.py:130-132)
WriteBytes(m) == Encode(Escape(m))

\* The statements of write() that its try block covers (server.py:134-135):
\* drain() only, not the encode and writer.write() of server.py:132.
WriteTryCovers(step) == step = "drain"

\* (variant: write() reports success without a writer)
NoWriterResultTrue == TRUE

\* the result of write() when no writer is attached (server.py:126-127)
NoWriterResult == FALSE

\* ------------------------------------------------------------------ state
VARIABLES
    funcs,        \* request_type.get_types(), as its key set
    alive,        \* self.__alive
    writer,       \* self.__writer: None, or the connection whose writer it is
    listening,    \* start() has scheduled asyncio.start_server
    loopStopped,  \* self.__loop.stop() has been called
    batch,        \* sessions whose callback is still in the loop's last iteration
    exited,       \* SystemExit has left the running code: the process exits
    pc,           \* per connection: position of its handle_connection coroutine
    conn,         \* per connection: state of the transport
    partial,      \* per connection: bytes without a CR LF are buffered
    inbox,        \* per connection: the frames received and not yet read
    inflight,     \* per connection: callbacks called and not yet finished
    stats,        \* per connection: what its read loop has done so far (history)
    lastEnd,      \* the session whose callback ended last, and how (history)
    nframes,      \* frames sent by all clients so far
    nsent,        \* per connection: messages delivered to its client
    lastWrite,    \* the last call of write(): caller, target, message, bytes, result
    nwrites       \* calls of write() so far

vars == <<funcs, alive, writer, listening, loopStopped, batch, exited, pc, conn,
          partial, inbox, inflight, stats, lastEnd, nframes, nsent, lastWrite,
          nwrites>>

NoWrite == [from |-> None, to |-> None, msg |-> <<>>, bytes |-> <<>>,
            delivered |-> FALSE, ret |-> FALSE, raised |-> FALSE]

\* stats[s]: frames read; callbacks called; frames read whose type is a key
\* of the registry; terminate frames read; malformed frames read; frames read
\* whose type is neither terminate nor a key of the registry.
NoStats == [read |-> 0, invoked |-> 0, keyed |-> 0, term |-> 0, bad |-> 0,
            unknown |-> 0]

\* idle: not connected; accepted: handle_connection scheduled; reading: in
\* readuntil; handler: in wait_for; done: the while loop has ended; error:
\* ended in the except clause of server.py:116; crashed: ended by an
\* exception nothing caught.
PcValues == {"idle", "unserved", "accepted", "reading", "handler", "done",
             "error", "crashed"}

TypeOK ==
    /\ funcs \in Registries
    /\ alive \in BOOLEAN /\ listening \in BOOLEAN
    /\ loopStopped \in BOOLEAN /\ exited \in BOOLEAN
    /\ writer \in {None} \cup Sess
    /\ batch \subseteq Sess
    /\ pc \in [Sess -> PcValues]
    /\ conn \in [Sess -> {"open", "eof", "reset"}]
    /\ partial \in [Sess -> BOOLEAN]
    /\ \A s \in Sess : /\ inbox[s] \in Seq(Frames)
                       /\ inflight[s] \in 0..MaxFrames
                       /\ nsent[s] \in 0..MaxWrites
                       /\ stats[s].read \in 0..MaxFrames
    /\ lastEnd \in [s : {None} \cup Sess, how : {"none", "returned", "raised", "timeout"}]
    /\ nframes \in 0..MaxFrames
    /\ nwrites \in 0..MaxWrites

\* AServer.__init__ (server.py:36-51)
Init ==
    /\ funcs \in Registries
    /\ alive = FALSE
    /\ writer = None
    /\ listening = FALSE
    /\ loopStopped = FALSE
    /\ batch = {}
    /\ exited = FALSE
    /\ pc = [s \in Sess |-> "idle"]
    /\ conn = [s \in Sess |-> "open"]
    /\ partial = [s \in Sess |-> FALSE]
    /\ inbox = [s \in Sess |-> <<>>]
    /\ inflight = [s \in Sess |-> 0]
    /\ stats = [s \in Sess |-> NoStats]
    /\ lastEnd = [s |-> None, how |-> "none"]
    /\ nframes = 0
    /\ nsent = [s \in Sess |-> 0]
    /\ lastWrite = NoWrite
    /\ nwrites = 0

\* ------------------------------------------------------------ event loop
\* A coroutine runs only when the event loop calls it.  After loop.stop()
\* the loop finishes the iteration it is in: the callbacks already scheduled
\* for that iteration (batch) still run, once each, and nothing else does.
CanRun(s) == ~exited /\ (~loopStopped \/ s \in batch)

Suspended == { s \in Sess : pc[s] \in {"accepted", "reading", "handler"} }

\* -------------------------------------------------- handle_connection
\* while self.__alive (server.py:89): where the coroutine goes when it
\* reaches the top of the loop: back into readuntil, or off the end.
LoopTop(a) == IF a THEN "reading" ELSE "done"

\* An exception leaving the inner try block (server.py:99-118), raised when
\* __alive is a and __writer is w: where the coroutine ends up, what
\* __writer becomes, and whether the exception leaves the coroutine as a
\* SystemExit.
OuterRaise(e, w) ==
    IF OuterExceptCatches(e)
    THEN [pc |-> "error", writer |-> None, exit |-> FALSE]       \* server.py:117
    ELSE [pc |-> "crashed", writer |-> w, exit |-> (e = "SystemExit")]

InnerRaise(e, a, w) ==
    IF InnerExceptCatches(e)
    THEN [pc |-> LoopTop(a), writer |-> w, exit |-> FALSE]       \* server.py:114
    ELSE OuterRaise(e, w)

\* The frame the next readuntil returns, and what is left in the buffer
\* (server.py:91).
NextFrame(q) == Head(q)
Rest(q) == Tail(q)

\* (variant: stop() returns to the loop body, which goes on to the lookup)
InnerExcStopReturns(f) ==
    IF JsonLoads(f) # NoExc THEN JsonLoads(f)
    ELSE IF GetType(f) # NoExc THEN GetType(f)
    ELSE NoExc

\* The first exception of the inner try block for frame f, up to and
\* including the call of stop() (server.py:101-105); stop() ends in exit(),
\* which raises SystemExit (server.py:72).
InnerExc(f) ==
    IF JsonLoads(f) # NoExc THEN JsonLoads(f)
    ELSE IF GetType(f) # NoExc THEN GetType(f)
    ELSE IF f.type = "terminate" THEN "SystemExit"
    ELSE NoExc

\* Frame f makes the loop body call self.stop() (server.py:104-105).
CallsStop(f) ==
    /\ Decode(f) = NoExc /\ JsonLoads(f) = NoExc /\ GetType(f) = NoExc
    /\ f.type = "terminate"

\* Frame f makes the loop body call a request callback (server.py:108-111).
CallsHandler(fs, f) ==
    /\ Decode(f) = NoExc /\ InnerExc(f) = NoExc
    /\ Lookup(fs, f.type)

\* (variant: the callback is scheduled and not awaited)
HandlerNotAwaited == FALSE

\* The loop body awaits the callback it has called (server.py:111): the
\* coroutine stays in wait_for until the callback has ended.
AwaitsHandler == TRUE

\* (variant: stop() leaves the loop as it is)
StopLeavesLoop(stopped) == stopped

\* self.__loop.stop() (server.py:69): whether the loop is stopped afterwards
LoopStop(stopped) == TRUE

\* AServer.start (server.py:53-62)
Start ==
    /\ ~listening /\ ~exited /\ ~loopStopped
    /\ alive' = TRUE
    /\ listening' = TRUE
    /\ UNCHANGED <<funcs, writer, loopStopped, batch, exited, pc, conn, partial,
                   inbox, inflight, stats, lastEnd, nframes, nsent, lastWrite,
                   nwrites>>

\* AServer.stop (server.py:65-72) called from outside handle_connection:
\* nothing catches the SystemExit of exit().
Stop ==
    /\ listening /\ ~exited /\ ~loopStopped
    /\ loopStopped' = LoopStop(loopStopped)
    /\ alive' = FALSE
    /\ exited' = TRUE
    /\ batch' = {}
    /\ UNCHANGED <<funcs, writer, listening, pc, conn, partial, inbox, inflight,
                   stats, lastEnd, nframes, nsent, lastWrite, nwrites>>

\* asyncio.start_server accepts a connection and schedules
\* handle_connection(reader, writer) for it (server.py:60).  Connections are
\* numbered in the order they are accepted.
Connect(s) ==
    /\ listening /\ ~loopStopped /\ ~exited
    /\ pc[s] = "idle"
    /\ \A t \in Sess : t < s => pc[t] # "idle"
    /\ pc' = [pc EXCEPT ![s] = "accepted"]
    /\ UNCHANGED <<funcs, alive, writer, listening, loopStopped, batch, exited,
                   conn, partial, inbox, inflight, stats, lastEnd, nframes, nsent,
                   lastWrite, nwrites>>

\* A client connects while the loop is stopped.  Accepting a connection is
\* a callback of the loop started by asyncio.start_server (server.py:60): a
\* stopped loop never runs it, so no handle_connection is scheduled; the
\* connection stays in the listen queue, or is refused once the process has
\* exited.
ConnectUnserved(s) ==
    /\ listening /\ loopStopped
    /\ pc[s] = "idle"
    /\ \A t \in Sess : t < s => pc[t] # "idle"
    /\ pc' = [pc EXCEPT ![s] = "unserved"]
    /\ UNCHANGED <<funcs, alive, writer, listening, loopStopped, batch, exited,
                   conn, partial, inbox, inflight, stats, lastEnd, nframes, nsent,
                   lastWrite, nwrites>>

\* handle_connection from its first line to the first readuntil
\* (server.py:84-91).
HandleConnectionStart(s) ==
    /\ pc[s] = "accepted" /\ CanRun(s)
    /\ writer' = s                                               \* server.py:87
    /\ pc' = [pc EXCEPT ![s] = LoopTop(alive)]
    /\ batch' = batch \ {s}
    /\ UNCHANGED <<funcs, alive, listening, loopStopped, exited, conn, partial,
                   inbox, inflight, stats, lastEnd, nframes, nsent, lastWrite,
                   nwrites>>

\* ---------------------------------------------------------------- clients
\* The transport feeds the stream reader only while the loop runs.
ClientCanAct(s) == pc[s] # "idle" /\ ~loopStopped /\ ~exited

\* The client of connection s sends one frame and its CR LF.
Send(s, f) ==
    /\ ClientCanAct(s) /\ conn[s] = "open"
    /\ nframes < MaxFrames
    /\ nframes' = nframes + 1
    /\ inbox' = [inbox EXCEPT ![s] = Append(@, f)]
    /\ partial' = [partial EXCEPT ![s] = FALSE]
    /\ UNCHANGED <<funcs, alive, writer, listening, loopStopped, batch, exited,
                   pc, conn, inflight, stats, lastEnd, nsent, lastWrite, nwrites>>

\* The client sends bytes that hold no CR LF.
SendPartial(s) ==
    /\ ClientCanAct(s) /\ conn[s] = "open"
    /\ ~partial[s]
    /\ partial' = [partial EXCEPT ![s] = TRUE]
    /\ UNCHANGED <<funcs, alive, writer, listening, loopStopped, batch, exited,
                   pc, conn, inbox, inflight, stats, lastEnd, nframes, nsent,
                   lastWrite, nwrites>>

\* The client closes its end: the stream reader is fed EOF.
Eof(s) ==
    /\ ClientCanAct(s) /\ conn[s] = "open"
    /\ conn' = [conn EXCEPT ![s] = "eof"]
    /\ UNCHANGED <<funcs, alive, writer, listening, loopStopped, batch, exited,
                   pc, partial, inbox, inflight, stats, lastEnd, nframes, nsent,
                   lastWrite, nwrites>>

\* The connection is reset: the stream reader is given a ConnectionError.
Reset(s) ==
    /\ ClientCanAct(s) /\ conn[s] # "reset"
    /\ conn' = [conn EXCEPT ![s] = "reset"]
    /\ UNCHANGED <<funcs, alive, writer, listening, loopStopped, batch, exited,
                   pc, partial, inbox, inflight, stats, lastEnd, nframes, nsent,
                   lastWrite, nwrites>>

\* ------------------------------------------------------------- read loop
\* What reading frame f adds to the history of a session.
Count(b) == IF b THEN 1 ELSE 0

Record(st, fs, f, called) ==
    [read    |-> st.read + 1,
     invoked |-> st.invoked + Count(called),
     keyed   |-> st.keyed + Count(WellFormed(f) /\ f.type \in fs),
     term    |-> st.term + Count(WellFormed(f) /\ f.type = "terminate"),
     bad     |-> st.bad + Count(~WellFormed(f)),
     unknown |-> st.unknown + Count(WellFormed(f) /\ f.type \notin fs \cup {"terminate"})]

\* readuntil returns a frame and the loop body runs on it up to its next
\* await (server.py:91-111).
ReadFrame(s) ==
    /\ pc[s] = "reading" /\ CanRun(s)
    /\ conn[s] # "reset"
    /\ inbox[s] # <<>>
    /\ LET f      == NextFrame(inbox[s])
           d      == Decode(f)
           e      == InnerExc(f)
           stops  == CallsStop(f)
           alive1 == IF stops THEN FALSE ELSE alive
           calls  == CallsHandler(funcs, f)
           r      == IF d # NoExc
                     THEN IF DecodeExceptCatches(d)
                          THEN [pc |-> LoopTop(alive), writer |-> writer,
                                exit |-> FALSE]                  \* server.py:95
                          ELSE OuterRaise(d, writer)
                     ELSE IF e # NoExc THEN InnerRaise(e, alive1, writer)
                     ELSE IF calls /\ AwaitsHandler
                          THEN [pc |-> "handler", writer |-> writer,
                                exit |-> FALSE]                  \* server.py:111
                          ELSE [pc |-> LoopTop(alive), writer |-> writer,
                                exit |-> FALSE]
       IN  /\ inbox' = [inbox EXCEPT ![s] = Rest(@)]
           /\ alive' = alive1                                    \* server.py:70
           /\ loopStopped' = IF stops THEN LoopStop(loopStopped)  \* server.py:69
                              ELSE loopStopped
           /\ IF stops /\ ~loopStopped
              THEN batch' \in SUBSET (Suspended \ {s})
              ELSE batch' = batch \ {s}
           /\ pc' = [pc EXCEPT ![s] = r.pc]
           /\ writer' = r.writer
           /\ exited' = (exited \/ r.exit)
           /\ inflight' = [inflight EXCEPT ![s] = @ + Count(calls)]
           /\ stats' = [stats EXCEPT ![s] = Record(@, funcs, f, calls)]
    /\ UNCHANGED <<funcs, listening, conn, partial, lastEnd, nframes, nsent,
                   lastWrite, nwrites>>

\* readuntil raises: ConnectionError after a reset, IncompleteReadError when
\* the stream ended and no CR LF is left in the buffer (server.py:91, 116-118).
ReadError(s) ==
    /\ pc[s] = "reading" /\ CanRun(s)
    /\ \/ conn[s] = "reset"
       \/ conn[s] = "eof" /\ inbox[s] = <<>>
    /\ LET e == IF conn[s] = "reset" THEN "ConnectionError"
                ELSE "IncompleteReadError"
           r == OuterRaise(e, writer)
       IN  /\ pc' = [pc EXCEPT ![s] = r.pc]
           /\ writer' = r.writer
           /\ exited' = (exited \/ r.exit)
    /\ batch' = batch \ {s}
    /\ UNCHANGED <<funcs, alive, listening, loopStopped, conn, partial, inbox,
                   inflight, stats, lastEnd, nframes, nsent, lastWrite, nwrites>>

\* ------------------------------------------------------ request callbacks
\* A callback runs between the call of asyncio.wait_for (server.py:111) and
\* its end.  What a callback does is not part of the server: it may call
\* write() any number of times, return, raise, or still be running when the
\* REQUEST_TIMEOUT of wait_for (server.py:19) expires.
HandlerExceptions == {"HandlerError", "ConnectionError"}

\* The coroutine after wait_for has ended with exception e (NoExc: it
\* returned), server.py:111-114 and 89.
AfterHandler(e, a, w) ==
    IF e = NoExc THEN [pc |-> LoopTop(a), writer |-> w, exit |-> FALSE]
    ELSE InnerRaise(e, a, w)

HandlerEnds(s, e, how) ==
    /\ pc[s] = "handler" /\ CanRun(s)
    /\ LET r == AfterHandler(e, alive, writer)
       IN  /\ pc' = [pc EXCEPT ![s] = r.pc]
           /\ writer' = r.writer
           /\ exited' = (exited \/ r.exit)
    /\ inflight' = [inflight EXCEPT ![s] = @ - 1]
    /\ lastEnd' = [s |-> s, how |-> how]
    /\ batch' = batch \ {s}
    /\ UNCHANGED <<funcs, alive, listening, loopStopped, conn, partial, inbox,
                   stats, nframes, nsent, lastWrite, nwrites>>

\* the callback returns
HandlerReturn(s) == HandlerEnds(s, NoExc, "returned")

\* the callback raises
HandlerRaise(s, e) == HandlerEnds(s, e, "raised")

\* wait_for cancels the callback and raises TimeoutError
HandlerTimeout(s) == HandlerEnds(s, "TimeoutError", "timeout")

\* AServer.write (server.py:122-136), called by the callback of session s
\* with message m.  drain() raises when the connection of the writer is lost.
\* When write() raises, the exception is the callback's to handle: it may
\* go on, return or raise.
Write(s, m) ==
    /\ pc[s] = "handler" /\ CanRun(s)
    /\ nwrites < MaxWrites
    /\ nwrites' = nwrites + 1
    /\ IF writer = None
       THEN /\ lastWrite' = [from |-> s, to |-> None, msg |-> m, bytes |-> <<>>,
                             delivered |-> FALSE, ret |-> NoWriterResult,
                             raised |-> FALSE]
            /\ UNCHANGED nsent
       ELSE IF ~Encodable(Escape(m))
       THEN \* server.py:132 raises; the call ends with the exception
            \* unless the try block covers the statement
            /\ lastWrite' = [from |-> s, to |-> writer, msg |-> m, bytes |-> <<>>,
                             delivered |-> FALSE, ret |-> FALSE,
                             raised |-> ~WriteTryCovers("send")]
            /\ UNCHANGED nsent
       ELSE LET ok == conn[writer] # "reset"
            IN  \* drain() raises on a lost connection (server.py:134-135)
                /\ lastWrite' = [from |-> s, to |-> writer, msg |-> m,
                                 bytes |-> WriteBytes(m), delivered |-> ok,
                                 ret |-> ok,
                                 raised |-> ~ok /\ ~WriteTryCovers("drain")]
                /\ nsent' = [nsent EXCEPT ![writer] = IF ok THEN @ + 1 ELSE @]
    /\ UNCHANGED <<funcs, alive, writer, listening, loopStopped, batch, exited,
                   pc, conn, partial, inbox, inflight, stats, lastEnd, nframes>>

\* ------------------------------------------------------------------ system
Next ==
    \/ Start
    \/ Stop
    \/ \E s \in Sess : Connect(s)
    \/ \E s \in Sess : ConnectUnserved(s)
    \/ \E s \in Sess : HandleConnectionStart(s)
    \/ \E s \in Sess, f \in Frames : Send(s, f)
    \/ \E s \in Sess : SendPartial(s)
    \/ \E s \in Sess : Eof(s)
    \/ \E s \in Sess : Reset(s)
    \/ \E s \in Sess : ReadFrame(s)
    \/ \E s \in Sess : ReadError(s)
    \/ \E s \in Sess : HandlerReturn(s)
    \/ \E s \in Sess, e \in HandlerExceptions : HandlerRaise(s, e)
    \/ \E s \in Sess : HandlerTimeout(s)
    \/ \E s \in Sess, m \in Messages : Write(s, m)

Spec == Init /\ [][Next]_vars

\* ================================================================ claims
\* Steps of the behaviour, recognised from the state before and after.
WriteStep(s) == nwrites' = nwrites + 1 /\ lastWrite'.from = s
ReadStep(s) == Len(inbox'[s]) < Len(inbox[s])
EndStep(s, how) ==
    /\ inflight'[s] < inflight[s]
    /\ lastEnd' = [s |-> s, how |-> how]
ErrorStep(s) == pc[s] = "reading" /\ pc'[s] = "error"

\* What the server as a whole and the other sessions keep through a step
\* of session s that is local to s.
OthersKeep(s) ==
    /\ alive' = alive /\ writer' = writer
    /\ exited' = exited /\ loopStopped' = loopStopped
    /\ conn' = conn
    /\ \A t \in Sess \ {s} : pc'[t] = pc[t] /\ inbox'[t] = inbox[t]

NothingCalled == inflight' = inflight /\ \A t \in Sess : stats'[t].invoked = stats[t].invoked
NothingWritten == nsent' = nsent /\ lastWrite' = lastWrite /\ nwrites' = nwrites

\* C1: a write issued by a callback dispatched for session S is sent on the
\* connection of S and never on the connection of another session.
C1_WriteOnOwnConnection ==
    lastWrite.to # None => lastWrite.to = lastWrite.from

\* C2: a connection error on session A ends only A: the other sessions keep
\* their place in the read loop, and a write made afterwards by a callback of
\* another session whose connection is open reaches that session's client
\* and returns true.
C2_ErrorEndsOnlyThatSession ==
    [][\A s \in Sess :
          /\ ErrorStep(s) => \A t \in Sess \ {s} : pc'[t] = pc[t]
          /\ ( /\ WriteStep(s) /\ conn[s] = "open"
               /\ \E a \in Sess \ {s} : pc[a] = "error" )
             => ( /\ lastWrite'.ret /\ lastWrite'.to = s
                  /\ nsent'[s] = nsent[s] + 1 )]_vars

\* C3: once a session has read a terminate frame, the liveness flag is false
\* and the SystemExit raised by stop() has taken effect, whatever the
\* registry holds.
C3_TerminateExits ==
    \A s \in Sess : stats[s].term > 0 => ~alive /\ exited

\* C4 (as stated): every frame read whose type is a key of the registry had
\* its callback called exactly once.
C4_EveryKeyedFrameCalled ==
    \A s \in Sess : stats[s].invoked = stats[s].keyed

\* C4 (amended): within one session at most one callback is in flight, a
\* callback is called only for the oldest unread frame while none is in
\* flight, and every frame read whose type is a key of the registry other
\* than "terminate" had its callback called exactly once.
KeyedTerminates(s) == IF "terminate" \in funcs THEN stats[s].term ELSE 0

C4_State ==
    \A s \in Sess :
        /\ inflight[s] <= 1
        /\ inflight[s] = 1 <=> pc[s] = "handler"
        /\ stats[s].invoked = stats[s].keyed - KeyedTerminates(s)

C4_Step ==
    \A s \in Sess :
        stats'[s].invoked # stats[s].invoked =>
            /\ stats'[s].invoked = stats[s].invoked + 1
            /\ inflight[s] = 0 /\ pc[s] = "reading"
            /\ inbox[s] # <<>> /\ inbox'[s] = Tail(inbox[s])
            /\ WellFormed(Head(inbox[s])) /\ Head(inbox[s]).type \in funcs
            /\ pc'[s] = "handler"

C4_SequentialDispatch == []C4_State /\ [][C4_Step]_vars

C4_Witness ==
    \E s \in Sess : stats[s].invoked = 2 /\ inflight[s] = 1 /\ lastEnd.s = s

\* C5: when wait_for times a callback out, only that call ends: the liveness
\* flag, the writer and the connection are unchanged, no other session is
\* touched, the unread frames stay, and the session is back in readuntil.
C5_TimeoutEndsOnlyTheCall ==
    [][\A s \in Sess :
          EndStep(s, "timeout") =>
              /\ OthersKeep(s)
              /\ inbox'[s] = inbox[s]
              /\ inflight'[s] = 0
              /\ alive => pc'[s] = "reading"]_vars

C5_Witness ==
    \E s \in Sess : /\ lastEnd = [s |-> s, how |-> "timeout"]
                    /\ stats[s].invoked = 2 /\ pc[s] = "handler"

\* C6: an exception raised by a callback is discarded in the dispatch step:
\* the session is back in readuntil, the liveness flag and the writer are
\* unchanged and no other session is touched.
C6_HandlerExceptionDiscarded ==
    [][\A s \in Sess :
          EndStep(s, "raised") =>
              /\ OthersKeep(s)
              /\ inbox'[s] = inbox[s]
              /\ alive => pc'[s] = "reading"]_vars

C6_Witness ==
    \E s \in Sess : /\ lastEnd = [s |-> s, how |-> "raised"]
                    /\ pc[s] = "reading" /\ writer = s /\ alive

\* C7: reading a malformed frame calls no callback, writes nothing, leaves
\* the liveness flag and the writer as they are and the session in readuntil,
\* so that a later well-formed frame is dispatched.
C7_MalformedFrameDiscarded ==
    [][\A s \in Sess :
          (ReadStep(s) /\ ~WellFormed(Head(inbox[s]))) =>
              /\ NothingCalled /\ NothingWritten
              /\ OthersKeep(s)
              /\ alive => pc'[s] = "reading"]_vars

C7_Witness ==
    \E s \in Sess : stats[s].bad > 0 /\ stats[s].invoked > 0 /\ pc[s] = "handler"

\* C8: reading a request whose type is neither "terminate" nor a key of the
\* registry calls no callback and writes nothing, and the session goes on
\* to the next frame.
C8_UnknownTypeIgnored ==
    [][\A s \in Sess :
          ( /\ ReadStep(s) /\ WellFormed(Head(inbox[s]))
            /\ Head(inbox[s]).type \notin funcs \cup {"terminate"} ) =>
              /\ NothingCalled /\ NothingWritten
              /\ OthersKeep(s)
              /\ alive => pc'[s] = "reading"]_vars

C8_Witness ==
    \E s \in Sess : stats[s].unknown > 0 /\ stats[s].read = 2 /\ stats[s].invoked = 0

\* C9: the bytes a successful write() delivers are the encoding of the
\* message it was given: a '%' of the message arrives as one '%'.
C9_BytesAreTheMessage ==
    lastWrite.delivered => lastWrite.bytes = Encode(lastWrite.msg)

\* C10: write() called while no writer is attached returns false and changes
\* nothing: no connection receives anything, and the writer and the liveness
\* flag are as before.
C10_NoWriterNoEffect ==
    [][\A s \in Sess :
          (WriteStep(s) /\ writer = None) =>
              /\ ~lastWrite'.ret /\ ~lastWrite'.delivered
              /\ lastWrite'.to = None
              /\ nsent' = nsent
              /\ OthersKeep(s) /\ pc' = pc /\ inbox' = inbox]_vars

C10_Witness ==
    lastWrite.from # None /\ lastWrite.to = None /\ ~lastWrite.ret

\* C11: write() never raises: when the send fails, where the bytes are
\* handed to the writer or where they are flushed, write() returns false to
\* the calling callback.
C11_WriteNeverRaises ==
    lastWrite.from # None =>
        /\ ~lastWrite.raised
        /\ ~lastWrite.delivered => ~lastWrite.ret

\* C12: no callback is called from received bytes before a CR LF has
\* arrived: a session that has been sent no CR LF has read no frame and
\* called no callback, and when its stream is closed with only a partial
\* frame buffered, readuntil raises, nothing is dispatched and the session
\* ends, for good.
NoDelimiterYet(s) == inbox[s] = <<>> /\ stats[s].read = 0

C12_State ==
    \A s \in Sess :
        /\ NoDelimiterYet(s) => stats[s].invoked = 0 /\ inflight[s] = 0
        /\ stats[s].invoked <= stats[s].read

C12_Step ==
    \A s \in Sess :
        /\ inbox[s] = <<>> =>
              /\ stats'[s] = stats[s]
              /\ inflight'[s] <= inflight[s]
        /\ ( /\ pc[s] = "reading" /\ pc'[s] # "reading"
             /\ conn[s] = "eof" /\ partial[s] /\ inbox[s] = <<>> ) =>
              /\ pc'[s] = "error"
              /\ NothingCalled /\ NothingWritten
              /\ partial'[s] /\ inbox'[s] = <<>>
        /\ pc[s] = "error" => pc'[s] = "error" /\ stats'[s] = stats[s]

C12_NoDispatchWithoutDelimiter == []C12_State /\ [][C12_Step]_vars

C12_Witness ==
    \E s \in Sess : /\ pc[s] = "error" /\ conn[s] = "eof" /\ partial[s]
                    /\ NoDelimiterYet(s) /\ stats[s].invoked = 0

\* C13: reading a terminate frame calls stop() before any lookup in the
\* registry: the loop is stopped and the liveness flag cleared, and no
\* callback is called for the frame, also when the registry has a callback
\* under "terminate".
IsTerminate(f) == WellFormed(f) /\ f.type = "terminate"

C13_TerminateBeforeLookup ==
    [][\A s \in Sess :
          (ReadStep(s) /\ IsTerminate(Head(inbox[s]))) =>
              /\ loopStopped' /\ ~alive'
              /\ NothingCalled
              /\ pc'[s] # "handler"]_vars

C13_Witness ==
    \E s \in Sess : /\ "terminate" \in funcs
                    /\ stats[s].term > 0 /\ stats[s].keyed = stats[s].term
                    /\ stats[s].invoked = 0 /\ loopStopped /\ ~alive

\* C14: once the liveness flag has been cleared, by stop() or by a terminate
\* frame of any client, no session calls a callback for a further frame:
\* not the session that asked, and not one that was waiting in readuntil or
\* for its callback.
StopHasRun == listening /\ ~alive

C14_NoDispatchAfterStop ==
    [][StopHasRun =>
          \A s \in Sess : /\ stats'[s].invoked = stats[s].invoked
                          /\ inflight'[s] <= inflight[s]]_vars

\* C15: after stop() has run the server accepts no connection: no
\* handle_connection coroutine is created for a connection that had not been
\* accepted, and a connection attempted then changes nothing of the server:
\* not the writer, the liveness flag, the loop, or any session.
NoSession(p) == p \in {"idle", "unserved"}

AttemptChangesNothing(s) ==
    /\ writer' = writer /\ alive' = alive /\ funcs' = funcs
    /\ listening' = listening /\ loopStopped' = loopStopped
    /\ exited' = exited /\ batch' = batch
    /\ \A t \in Sess \ {s} : pc'[t] = pc[t]
    /\ conn' = conn /\ inbox' = inbox /\ partial' = partial
    /\ inflight' = inflight /\ stats' = stats
    /\ NothingWritten

C15_NoAcceptAfterStop ==
    [][StopHasRun =>
          \A s \in Sess :
              /\ NoSession(pc[s]) => NoSession(pc'[s])
              /\ (pc[s] = "idle" /\ pc'[s] # "idle") => AttemptChangesNothing(s)]_vars

C15_Witness ==
    \E s, t \in Sess : /\ StopHasRun /\ pc[s] = "unserved"
                       /\ stats[t].term > 0 /\ writer = t

\* The stream of session s has ended and no complete frame is left to read.
ClosedAtFrameEnd(s) == conn[s] = "eof" /\ inbox[s] = <<>>

InReadLoop(s) == pc[s] \in {"reading", "handler"}

C17_WriterOfRunningSession ==
    writer # None => InReadLoop(writer)

====
